---- MODULE Spec2Model ----
(***************************************************************************)
(* Options-Pricer-Library: the CRR binomial lattice (core/binomial_tree.py),*)
(* the bisection implied-volatility solver (core/black_scholes.py) and the  *)
(* volatility surface with its pricing dispatcher (core/vol_surface.py).    *)
(*                                                                          *)
(* Numbers.  The code computes in binary floating point.  The lattice is    *)
(* modelled in exact rational arithmetic (pairs <<numerator, denominator>>) *)
(* so a value is what the code's formula yields before rounding.  exp and   *)
(* sqrt are not rational: the lattice takes u = exp(sigma*sqrt(dt)) and     *)
(* growth = exp(r*dt) themselves as its inputs (any u > 1 and growth > 0    *)
(* are the image of some sigma > 0, r, T > 0).                              *)
(***************************************************************************)
EXTENDS Integers, Sequences, FiniteSets, TLC

VARIABLES
    \* ---- binomial_tree_price: arguments and locals
    S, K, u, growth, option_type, steps, exercise,
    prices, values, i, j, tree_pc, tree_result,
    \* ---- implied_volatility: arguments, locals, and the prices evaluated
    target_price, tol, max_iter, lower, upper,
    f_lower, f_upper, a, b, it, mids, evals, true_sigma, iv_pc, iv_outcome, iv_result,
    \* ---- VolSurface objects, and for each the receiver and bump it came from
    surfaces, lineage,
    \* ---- price_from_surface: arguments, locals, and the pricer it invoked
    method, kw_type, qK, qT, sigma, disp_pc, disp_outcome, invoked

treeVars == <<S, K, u, growth, option_type, steps, exercise,
              prices, values, i, j, tree_pc, tree_result>>
ivVars == <<target_price, tol, max_iter, lower, upper, f_lower, f_upper, a, b,
            it, mids, evals, true_sigma, iv_pc, iv_outcome, iv_result>>
surfVars == <<surfaces, lineage>>
dispVars == <<method, kw_type, qK, qT, sigma, disp_pc, disp_outcome, invoked>>
vars == <<treeVars, ivVars, surfVars, dispVars>>

\* A component that is not running: each specification runs one component.
TreeIdle ==
    /\ S = 0 /\ K = 0 /\ u = <<1, 1>> /\ growth = <<1, 1>>
    /\ option_type = "call" /\ steps = 0 /\ exercise = "european"
    /\ prices = <<>> /\ values = <<>> /\ i = 0 /\ j = 0
    /\ tree_pc = "idle" /\ tree_result = <<0, 1>>

IvIdle ==
    /\ target_price = 0 /\ tol = 0 /\ max_iter = 0 /\ lower = 0 /\ upper = 0
    /\ f_lower = 0 /\ f_upper = 0 /\ a = 0 /\ b = 0 /\ it = 0 /\ mids = <<>>
    /\ evals = <<>> /\ true_sigma = 0 /\ iv_pc = "idle" /\ iv_outcome = "none"
    /\ iv_result = 0

SurfIdle == surfaces = <<>> /\ lineage = <<>>

DispIdle ==
    /\ method = "bsm" /\ kw_type = "call" /\ qK = 0 /\ qT = 0
    /\ sigma = <<"nan", <<0, 1>>>> /\ disp_pc = "idle" /\ disp_outcome = "none"
    /\ invoked = <<>>

(***************************************************************************)
(* Bounds of the model.                                                     *)
(***************************************************************************)
MaxSpot == 3
MaxStrike == 3
MaxSteps == 3
MaxIter == 3
MaxVol == 2
MaxPrice == 3
MaxTol == 2
MaxSurfaces == 2

(***************************************************************************)
(* Exact rationals: <<n, dn>> with dn > 0 and gcd(|n|, dn) = 1.              *)
(***************************************************************************)
Abs(x) == IF x < 0 THEN -x ELSE x

RECURSIVE GCD(_, _)
GCD(x, y) == IF y = 0 THEN x ELSE GCD(y, x % y)

Rat(n, dn) ==
    LET sn == IF dn < 0 THEN -n ELSE n
        sd == Abs(dn)
        g == GCD(Abs(sn), sd)
    IN  <<sn \div g, sd \div g>>

RInt(n) == <<n, 1>>

\* Sums and comparisons go through the least common denominator and products
\* cancel before multiplying, which keeps the intermediate integers small.
RAdd(x, y) ==
    LET g == GCD(x[2], y[2])
    IN  Rat(x[1] * (y[2] \div g) + y[1] * (x[2] \div g), (x[2] \div g) * y[2])

RNeg(x) == <<-x[1], x[2]>>
RSub(x, y) == RAdd(x, RNeg(y))

RMul(x, y) ==
    LET g1 == GCD(Abs(x[1]), y[2])
        g2 == GCD(Abs(y[1]), x[2])
    IN  <<(x[1] \div g1) * (y[1] \div g2), (x[2] \div g2) * (y[2] \div g1)>>

RInv(x) == IF x[1] < 0 THEN <<-x[2], -x[1]>> ELSE <<x[2], x[1]>>
RDiv(x, y) == RMul(x, RInv(y))

RLe(x, y) ==
    LET g == GCD(x[2], y[2])
    IN  x[1] * (y[2] \div g) <= y[1] * (x[2] \div g)

RLt(x, y) == ~RLe(y, x)
RMax(x, y) == IF RLe(x, y) THEN y ELSE x

RECURSIVE RPow(_, _)
RPow(x, n) == IF n = 0 THEN RInt(1) ELSE RMul(x, RPow(x, n - 1))

(***************************************************************************)
(* str.lower() on the strings the callers pass.                             *)
(***************************************************************************)
Lower(s) ==
    CASE s = "CALL" -> "call"
      [] s = "BSM" -> "bsm"
      [] OTHER -> s

TypeStrings == {"call", "put", "CALL", "straddle"}
ExerciseStrings == {"european", "american", "bermudan"}

(***************************************************************************)
(* binomial_tree_price                                                      *)
(***************************************************************************)
\* The pairs <<u, growth>> = <<exp(sigma*sqrt(dt)), exp(r*dt)>> of the inputs.
\* For u = 2 they give p = -1/6, 0, 1/3, 2/3, 1, 5/3; for u = 3, p = 0, 1/4, 1.
Factors ==
    ({<<2, 1>>} \X {<<1, 4>>, <<1, 2>>, <<1, 1>>, <<3, 2>>, <<2, 1>>, <<3, 1>>})
        \cup ({<<3, 1>>} \X {<<1, 3>>, <<1, 1>>, <<3, 1>>})

d == RDiv(RInt(1), u)
p == RDiv(RSub(growth, d), RSub(u, d))
disc == RDiv(RInt(1), growth)

TerminalPrices ==
    [jj \in 0..steps |-> RMul(RMul(RInt(S), RPow(u, jj)), RPow(d, steps - jj))]

TerminalPayoff(price) ==
    IF Lower(option_type) = "call"
    THEN RMax(RSub(price, RInt(K)), RInt(0))
    ELSE RMax(RSub(RInt(K), price), RInt(0))

\* the up and down weights exchanged
ContinuationSwapped(vals, jj) ==
    RMul(disc, RAdd(RMul(p, vals[jj]), RMul(RSub(RInt(1), p), vals[jj + 1])))

Continuation(vals, jj) ==
    RMul(disc, RAdd(RMul(p, vals[jj + 1]), RMul(RSub(RInt(1), p), vals[jj])))

IntrinsicSpot(prs, jj) == RDiv(prs[jj], u)

Intrinsic(prs, jj) ==
    IF Lower(option_type) = "call"
    THEN RMax(RSub(IntrinsicSpot(prs, jj), RInt(K)), RInt(0))
    ELSE RMax(RSub(RInt(K), IntrinsicSpot(prs, jj)), RInt(0))

\* early exercise taken without comparing it to the continuation value
NodeValueExerciseOnly(vals, prs, jj) ==
    IF Lower(exercise) = "american"
    THEN Intrinsic(prs, jj)
    ELSE Continuation(vals, jj)

NodeValue(vals, prs, jj) ==
    IF Lower(exercise) = "american"
    THEN RMax(Continuation(vals, jj), Intrinsic(prs, jj))
    ELSE Continuation(vals, jj)

TreeInit ==
    /\ S \in 1..MaxSpot
    /\ K \in 1..MaxStrike
    /\ \E pair \in Factors : u = pair[1] /\ growth = pair[2]
    /\ option_type \in TypeStrings
    /\ steps \in 1..MaxSteps
    /\ exercise \in ExerciseStrings
    /\ prices = <<>> /\ values = <<>> /\ i = 0 /\ j = 0
    /\ tree_pc = "entry" /\ tree_result = <<0, 1>>

\* lines 20-39: the factors, the terminal spots and the terminal payoff
TreeSetup ==
    /\ tree_pc = "entry"
    /\ prices' = TerminalPrices
    /\ values' = [jj \in 0..steps |-> TerminalPayoff(TerminalPrices[jj])]
    /\ i' = steps - 1
    /\ j' = 0
    /\ tree_pc' = "node"
    /\ UNCHANGED <<S, K, u, growth, option_type, steps, exercise, tree_result>>
    /\ UNCHANGED <<ivVars, surfVars, dispVars>>

\* lines 43-55: one pass of the inner loop body, then the loops' next indices
TreeNode ==
    /\ tree_pc = "node"
    /\ values' = [values EXCEPT ![j] = NodeValue(values, prices, j)]
    /\ prices' = [prices EXCEPT ![j] = RDiv(prices[j], u)]
    /\ IF j < i
       THEN /\ j' = j + 1
            /\ UNCHANGED <<i, tree_pc>>
       ELSE IF i > 0
            THEN /\ i' = i - 1
                 /\ j' = 0
                 /\ UNCHANGED tree_pc
            ELSE /\ tree_pc' = "return"
                 /\ UNCHANGED <<i, j>>
    /\ UNCHANGED <<S, K, u, growth, option_type, steps, exercise, tree_result>>
    /\ UNCHANGED <<ivVars, surfVars, dispVars>>

\* line 57
TreeReturn ==
    /\ tree_pc = "return"
    /\ tree_result' = values[0]
    /\ tree_pc' = "done"
    /\ UNCHANGED <<S, K, u, growth, option_type, steps, exercise, prices, values, i, j>>
    /\ UNCHANGED <<ivVars, surfVars, dispVars>>

TreeNext == TreeSetup \/ TreeNode \/ TreeReturn

InitTree == TreeInit /\ IvIdle /\ SurfIdle /\ DispIdle

SpecTree == InitTree /\ [][TreeNext]_vars

(***************************************************************************)
(* The lattice as a full two-dimensional tree: level lvl has nodes 0..lvl.  *)
(* Spot2D is the code's spot table without the aliasing (each level's spot  *)
(* is the level below divided by u, line 55); NodeSpot is the CRR node's    *)
(* own spot S*u^jj*d^(lvl-jj).                                              *)
(***************************************************************************)
NodeSpot(lvl, jj) == RMul(RMul(RInt(S), RPow(u, jj)), RPow(d, lvl - jj))

Exercised(spot) ==
    IF Lower(option_type) = "call"
    THEN RMax(RSub(spot, RInt(K)), RInt(0))
    ELSE RMax(RSub(RInt(K), spot), RInt(0))

RECURSIVE Spot2D(_, _)
Spot2D(lvl, jj) ==
    IF lvl = steps THEN NodeSpot(steps, jj) ELSE RDiv(Spot2D(lvl + 1, jj), u)

RECURSIVE Value2D(_, _, _)
Value2D(ex, lvl, jj) ==
    IF lvl = steps
    THEN Exercised(NodeSpot(steps, jj))
    ELSE LET up == Value2D(ex, lvl + 1, jj + 1)
             down == Value2D(ex, lvl + 1, jj)
             cont == RMul(disc, RAdd(RMul(p, up), RMul(RSub(RInt(1), p), down)))
         IN  IF ex = "american" THEN RMax(cont, Exercised(Spot2D(lvl, jj))) ELSE cont

\* The level whose value values[k] holds now: a node is overwritten once per
\* level it belongs to (levels steps-1 down to k), in ascending k per level.
Level(k) ==
    LET cur == IF tree_pc = "node" THEN (IF k < j THEN i ELSE i + 1) ELSE 0
    IN  IF k > cur THEN k ELSE cur

TreeRunning == tree_pc \in {"node", "return", "done"}
ProbabilityInUnitInterval == RLe(RInt(0), p) /\ RLe(p, RInt(1))
StyleOf(ex) == IF Lower(ex) = "american" THEN "american" ELSE "european"

\* C1 (as claimed): for every valid input the American price is at least the
\* European price of the same inputs, whatever the risk-neutral probability.
C1_AmericanAtLeastEuropean ==
    (tree_pc = "done" /\ Lower(exercise) = "american"
        /\ Lower(option_type) \in {"call", "put"})
    => RLe(Value2D("european", 0, 0), tree_result)

\* C1 (amended): when 0 <= p <= 1, every American node value held in the
\* array, and the returned price, is at least the European value of that node.
C1_AmericanAtLeastEuropeanUnitP ==
    (TreeRunning /\ Lower(exercise) = "american" /\ ProbabilityInUnitInterval)
    => /\ \A k \in 0..steps : RLe(Value2D("european", Level(k), k), values[k])
       /\ tree_pc = "done" => RLe(Value2D("european", 0, 0), tree_result)

C1_Witness ==
    /\ tree_pc = "done" /\ Lower(exercise) = "american" /\ steps >= 2
    /\ ProbabilityInUnitInterval
    /\ RLt(Value2D("european", 0, 0), tree_result)

\* C8: at every American node (i, j) the intrinsic value is computed from the
\* node's own spot S*u^j*d^(i-j).
C8_IntrinsicUsesNodeSpot ==
    (tree_pc = "node" /\ Lower(exercise) = "american")
    => IntrinsicSpot(prices, j) = NodeSpot(i, j)

VolUnit == 2 ^ MaxIter
VolBounds == {k * VolUnit : k \in 0..MaxVol}
VolPoints == 1..(MaxVol * VolUnit)

\* the prices black_scholes_price may return at sigma_val, given those seen
PricesAt(sigma_val) ==
    {v \in 0..MaxPrice :
        \A s \in DOMAIN evals :
            /\ s < sigma_val => evals[s] <= v
            /\ s > sigma_val => v <= evals[s]
            /\ s = sigma_val => v = evals[s]}

Seen(sigma_val, v) ==
    [s \in (DOMAIN evals) \cup {sigma_val} |-> IF s = sigma_val THEN v ELSE evals[s]]

\* black_scholes_price lines 54-55 (and d1's own check): sigma must be positive
SigmaRejected(sigma_val) == sigma_val <= 0

\* f(sigma_val) given the price at sigma_val, line 187
f(v) == v - target_price

\* a zero at a bound taken for a missing sign change
NotBracketedOrZero(fl, fu) == fl * fu >= 0

\* line 193
NotBracketed(fl, fu) == fl * fu > 0

\* a residual of exactly tol accepted
ConvergedOrAtTol(f_mid) == Abs(f_mid) <= tol

\* line 204
Converged(f_mid) == Abs(f_mid) < tol

\* one pass too many: range(max_iter + 1)
LoopContinuesOneMore(n) == n <= max_iter

\* line 200: for _ in range(max_iter)
LoopContinues(n) == n < max_iter

\* line 201
Midpoint(lo, hi) == (lo + hi) \div 2

IvInit ==
    /\ tol \in 0..MaxTol
    /\ max_iter \in 0..MaxIter
    /\ lower \in VolBounds
    /\ upper \in VolBounds
    /\ target_price \in 0..MaxPrice
    /\ \/ true_sigma = 0 /\ evals = <<>>
       \/ true_sigma \in VolPoints /\ evals = (true_sigma :> target_price)
    /\ f_lower = 0 /\ f_upper = 0 /\ a = 0 /\ b = 0 /\ it = 0 /\ mids = <<>>
    /\ iv_pc = "entry" /\ iv_outcome = "none" /\ iv_result = 0

IvArgs == <<target_price, tol, max_iter, lower, upper, true_sigma>>

\* lines 181-184
IvEntry ==
    /\ iv_pc = "entry"
    /\ IF target_price <= 0
       THEN iv_pc' = "done" /\ iv_outcome' = "InvalidInput"
       ELSE iv_pc' = "f_lower" /\ UNCHANGED iv_outcome
    /\ UNCHANGED <<IvArgs, f_lower, f_upper, a, b, it, mids, evals, iv_result>>
    /\ UNCHANGED <<treeVars, surfVars, dispVars>>

\* line 190
IvEvalLower ==
    /\ iv_pc = "f_lower"
    /\ IF SigmaRejected(lower)
       THEN /\ iv_pc' = "done" /\ iv_outcome' = "InvalidInput"
            /\ UNCHANGED <<f_lower, evals>>
       ELSE /\ \E v \in PricesAt(lower) :
                   /\ evals' = Seen(lower, v)
                   /\ f_lower' = f(v)
            /\ iv_pc' = "f_upper"
            /\ UNCHANGED iv_outcome
    /\ UNCHANGED <<IvArgs, f_upper, a, b, it, mids, iv_result>>
    /\ UNCHANGED <<treeVars, surfVars, dispVars>>

\* line 191
IvEvalUpper ==
    /\ iv_pc = "f_upper"
    /\ IF SigmaRejected(upper)
       THEN /\ iv_pc' = "done" /\ iv_outcome' = "InvalidInput"
            /\ UNCHANGED <<f_upper, evals>>
       ELSE /\ \E v \in PricesAt(upper) :
                   /\ evals' = Seen(upper, v)
                   /\ f_upper' = f(v)
            /\ iv_pc' = "bracket"
            /\ UNCHANGED iv_outcome
    /\ UNCHANGED <<IvArgs, f_lower, a, b, it, mids, iv_result>>
    /\ UNCHANGED <<treeVars, surfVars, dispVars>>

\* lines 193-198
IvBracket ==
    /\ iv_pc = "bracket"
    /\ IF NotBracketed(f_lower, f_upper)
       THEN /\ iv_pc' = "done" /\ iv_outcome' = "BracketingError"
            /\ UNCHANGED <<a, b>>
       ELSE /\ a' = lower /\ b' = upper
            /\ iv_pc' = "loop"
            /\ UNCHANGED iv_outcome
    /\ UNCHANGED <<IvArgs, f_lower, f_upper, it, mids, evals, iv_result>>
    /\ UNCHANGED <<treeVars, surfVars, dispVars>>

\* lines 200-213: one pass of the loop body
IvIterate ==
    /\ iv_pc = "loop"
    /\ LoopContinues(it)
    /\ LET mid == Midpoint(a, b)
       IN  \E v \in PricesAt(mid) :
             LET f_mid == f(v)
             IN  /\ evals' = Seen(mid, v)
                 /\ mids' = Append(mids, mid)
                 /\ it' = it + 1
                 /\ IF Converged(f_mid)
                    THEN /\ iv_result' = mid
                         /\ iv_outcome' = "ok"
                         /\ iv_pc' = "done"
                         /\ UNCHANGED <<a, b, f_lower, f_upper>>
                    ELSE /\ IF f_lower * f_mid < 0
                            THEN b' = mid /\ f_upper' = f_mid /\ UNCHANGED <<a, f_lower>>
                            ELSE a' = mid /\ f_lower' = f_mid /\ UNCHANGED <<b, f_upper>>
                         /\ UNCHANGED <<iv_result, iv_outcome, iv_pc>>
    /\ UNCHANGED IvArgs
    /\ UNCHANGED <<treeVars, surfVars, dispVars>>

\* line 216: the loop ran out
IvExhausted ==
    /\ iv_pc = "loop"
    /\ ~LoopContinues(it)
    /\ iv_pc' = "done"
    /\ iv_outcome' = "ConvergenceError"
    /\ UNCHANGED <<IvArgs, f_lower, f_upper, a, b, it, mids, evals, iv_result>>
    /\ UNCHANGED <<treeVars, surfVars, dispVars>>

IvNext == IvEntry \/ IvEvalLower \/ IvEvalUpper \/ IvBracket \/ IvIterate \/ IvExhausted

InitIV == IvInit /\ TreeIdle /\ SurfIdle /\ DispIdle

SpecIV == InitIV /\ [][IvNext]_vars

\* f at a volatility the run has evaluated
fAt(sigma_val) == evals[sigma_val] - target_price

\* both bounds were priced and the bracket test has been taken
BracketTested ==
    /\ iv_pc \in {"loop", "done"}
    /\ target_price > 0 /\ lower > 0 /\ upper > 0

BracketPassed == BracketTested /\ fAt(lower) * fAt(upper) <= 0

\* C2 (as claimed): priced at a volatility strictly inside the bracket, the
\* solver does not fail to bracket and returns only that volatility (two grid
\* points are further apart than 1e-4).
C2_RoundTripRecoversSigma ==
    (iv_pc = "done" /\ true_sigma # 0 /\ target_price > 0
        /\ lower < true_sigma /\ true_sigma < upper)
    => /\ iv_outcome # "BracketingError"
       /\ iv_outcome = "ok" => iv_result = true_sigma

\* C2 (amended): when the solver returns on a target priced at sigma, the
\* returned volatility reprices to within tol of the target.
C2_RoundTripRecoversPrice ==
    (iv_pc = "done" /\ true_sigma # 0 /\ iv_outcome = "ok")
    => Abs(evals[iv_result] - evals[true_sigma]) < tol

C2_Witness ==
    /\ iv_pc = "done" /\ iv_outcome = "ok" /\ true_sigma # 0
    /\ Len(mids) >= 2 /\ iv_result # true_sigma
    /\ lower < true_sigma /\ true_sigma < upper

\* C3 (as claimed): the bracketing error is raised whenever f(lower) and
\* f(upper) are not of strictly opposite signs.
C3_FailsUnlessStrictlyOpposite ==
    (BracketTested /\ ~(fAt(lower) * fAt(upper) < 0))
    => iv_outcome = "BracketingError" /\ mids = <<>>

\* C3 (amended): the bracketing error is raised, before any midpoint is
\* evaluated, exactly when f(lower)*f(upper) > 0; a zero at a bound passes.
C3_FailsIffSameStrictSign ==
    BracketTested
    => /\ (fAt(lower) * fAt(upper) > 0) <=> (iv_outcome = "BracketingError")
       /\ iv_outcome = "BracketingError" => mids = <<>>

C3_Witness ==
    /\ iv_pc = "done" /\ iv_outcome = "BracketingError"
    /\ lower = upper /\ fAt(lower) # 0

C6_State ==
    /\ Len(mids) <= max_iter
    /\ iv_pc = "loop" => (it = Len(mids) /\ ENABLED IvNext)
    /\ (iv_pc = "done" /\ BracketPassed)
       => /\ iv_outcome \in {"ok", "ConvergenceError"}
          /\ iv_outcome = "ok"
             => /\ mids # <<>>
                /\ iv_result = mids[Len(mids)]
                /\ Abs(fAt(iv_result)) < tol
          /\ iv_outcome = "ConvergenceError"
             => /\ Len(mids) = max_iter
                /\ \A n \in 1..Len(mids) : Abs(fAt(mids[n])) >= tol

C6_Step ==
    iv_pc = "loop" => (iv_pc' = "done" \/ (it' = it + 1 /\ it' <= max_iter))

\* C6: once the bracket test has passed the solver ends, returning a midpoint
\* with |f| < tol or failing to converge after exactly max_iter midpoints;
\* never more than max_iter midpoints, none at all when max_iter = 0, and
\* every pass of the loop either ends the call or uses up one of the passes.
C6_TerminatesWithinBudget == [](C6_State) /\ [][C6_Step]_vars

C6_Witness ==
    /\ iv_pc = "done" /\ iv_outcome = "ConvergenceError"
    /\ max_iter = 2 /\ Len(mids) = 2 /\ tol > 0

\* C10: at the start of every pass f(a)*f(b) <= 0 and f_lower = f(a).
C10_BracketKeepsSignChange ==
    iv_pc = "loop" => (fAt(a) * fAt(b) <= 0 /\ f_lower = fAt(a))

(***************************************************************************)
(* Floating-point values that may be not-a-number or infinite:              *)
(* <<"num", r>> with r rational, <<"nan", 0>>, <<"inf", 0>>, <<"-inf", 0>>, *)
(* with the IEEE-754 rules for sums and products.                           *)
(***************************************************************************)
Num(r) == <<"num", r>>
NaN == <<"nan", <<0, 1>>>>
PosInf == <<"inf", <<0, 1>>>>
NegInf == <<"-inf", <<0, 1>>>>
IsNum(x) == x[1] = "num"
IsNaN(x) == x[1] = "nan"

FAdd(x, y) ==
    IF IsNaN(x) \/ IsNaN(y) THEN NaN
    ELSE IF IsNum(x) /\ IsNum(y) THEN Num(RAdd(x[2], y[2]))
    ELSE IF IsNum(x) THEN y
    ELSE IF IsNum(y) THEN x
    ELSE IF x = y THEN x ELSE NaN

\* w * x for a finite w
FScale(w, x) ==
    IF IsNaN(x) THEN NaN
    ELSE IF IsNum(x) THEN Num(RMul(w, x[2]))
    ELSE IF w[1] = 0 THEN NaN
    ELSE IF w[1] > 0 THEN x
    ELSE IF x = PosInf THEN NegInf ELSE PosInf

(***************************************************************************)
(* VolSurface.  A table is a sequence of rows [maturity, strike, iv].       *)
(***************************************************************************)
MaturityValues == {1, 2}
StrikeValues == {1, 2}
IvValues == {Num(<<1, 1>>), Num(<<2, 1>>), PosInf}
RowCounts == {3, 4, 5}
Bumps == {<<-1, 1>>, <<1, 2>>, <<1, 1>>}

RowKey(row) == <<row.maturity, row.strike, row.iv[1], row.iv[2][1]>>

KeyLe(x, y) ==
    \/ x[1] < y[1]
    \/ x[1] = y[1] /\ x[2] < y[2]
    \/ x[1] = y[1] /\ x[2] = y[2] /\ (x[3] = "num" /\ y[3] = "inf")
    \/ x[1] = y[1] /\ x[2] = y[2] /\ x[3] = y[3] /\ x[4] <= y[4]

\* The tables the callers build: two maturities and two strikes, some nodes
\* perhaps missing or given twice.  The constructor does not depend on the
\* order of the rows, so one order stands for all.
Tables ==
    {df \in UNION {[1..n -> [maturity : MaturityValues, strike : StrikeValues,
                             iv : IvValues]] : n \in RowCounts} :
        /\ \A n \in 1..(Len(df) - 1) : KeyLe(RowKey(df[n]), RowKey(df[n + 1]))
        /\ {df[n].maturity : n \in 1..Len(df)} = MaturityValues
        /\ {df[n].strike : n \in 1..Len(df)} = StrikeValues}

\* np.sort(column.unique())
RECURSIVE SortedUnique(_)
SortedUnique(set) ==
    IF set = {} THEN <<>>
    ELSE LET least == CHOOSE x \in set : \A y \in set : x <= y
         IN  <<least>> \o SortedUnique(set \ {least})

RECURSIVE SumIv(_, _)
SumIv(df, rows) ==
    IF rows = {} THEN Num(<<0, 1>>)
    ELSE LET n == CHOOSE x \in rows : TRUE
         IN  FAdd(df[n].iv, SumIv(df, rows \ {n}))

\* pivot_table(index="maturity", columns="strike", values="iv"): the mean of
\* the rows of a node, not-a-number where the table has no row for it
PivotTable(df, maturities, strikes) ==
    [mi \in 1..Len(maturities) |->
        [ki \in 1..Len(strikes) |->
            LET rows == {n \in 1..Len(df) : /\ df[n].maturity = maturities[mi]
                                            /\ df[n].strike = strikes[ki]}
            IN  IF rows = {} THEN NaN
                ELSE FScale(<<1, Cardinality(rows)>>, SumIv(df, rows))]]

\* VolSurface.__init__
VolSurface(df) ==
    LET maturities == SortedUnique({df[n].maturity : n \in 1..Len(df)})
        strikes == SortedUnique({df[n].strike : n \in 1..Len(df)})
    IN  [df |-> df, maturities |-> maturities, strikes |-> strikes,
         iv_grid |-> PivotTable(df, maturities, strikes)]

\* RegularGridInterpolator, linear, bounds_error=False, fill_value=None: the
\* grid cell of x (the last or first one when x lies outside the axis) ...
CellOf(axis, x) ==
    LET below == Cardinality({n \in 1..Len(axis) : axis[n] < x})
    IN  IF below < 1 THEN 1 ELSE IF below > Len(axis) - 1 THEN Len(axis) - 1 ELSE below

\* ... and x's distance into that cell, as a fraction of the cell
NormDistance(axis, x) ==
    LET c == CellOf(axis, x)
    IN  Rat(x - axis[c], axis[c + 1] - axis[c])

\* VolSurface.iv: the weighted sum of the four corners of the cell
Iv(surface, Kq, Tq) ==
    LET mc == CellOf(surface.maturities, Tq)
        kc == CellOf(surface.strikes, Kq)
        yT == NormDistance(surface.maturities, Tq)
        yK == NormDistance(surface.strikes, Kq)
        wT(e) == IF e = 0 THEN RSub(RInt(1), yT) ELSE yT
        wK(e) == IF e = 0 THEN RSub(RInt(1), yK) ELSE yK
        term(eT, eK) == FScale(RMul(wT(eT), wK(eK)), surface.iv_grid[mc + eT][kc + eK])
    IN  FAdd(FAdd(FAdd(term(0, 0), term(0, 1)), term(1, 0)), term(1, 1))

\* the bump taken off instead of added
BumpedDfSubtracted(df, bump) ==
    [n \in 1..Len(df) |-> [df[n] EXCEPT !.iv = FAdd(@, Num(RNeg(bump)))]]

\* lines 47-48: bumped_df = self.df.copy(); bumped_df["iv"] += bump
BumpedDf(df, bump) ==
    [n \in 1..Len(df) |-> [df[n] EXCEPT !.iv = FAdd(@, Num(bump))]]

SurfInit ==
    /\ \E df \in Tables : surfaces = <<VolSurface(df)>>
    /\ lineage = <<[receiver |-> 0, bump |-> <<0, 1>>]>>

\* VolSurface.shock_parallel, called on any surface built so far
ShockParallel ==
    /\ Len(surfaces) < MaxSurfaces
    /\ \E k \in 1..Len(surfaces), bump \in Bumps :
          /\ surfaces' = Append(surfaces, VolSurface(BumpedDf(surfaces[k].df, bump)))
          /\ lineage' = Append(lineage, [receiver |-> k, bump |-> bump])
    /\ UNCHANGED <<treeVars, ivVars, dispVars>>

SurfNext == ShockParallel

InitSurface == SurfInit /\ TreeIdle /\ IvIdle /\ DispIdle

SpecSurface == InitSurface /\ [][SurfNext]_vars

GridNodes(surface) == (1..Len(surface.maturities)) \X (1..Len(surface.strikes))

C7_State ==
    \A n \in 1..Len(surfaces) :
        lineage[n].receiver # 0
        => LET new == surfaces[n]
               old == surfaces[lineage[n].receiver]
               bump == Num(lineage[n].bump)
           IN  /\ new.maturities = old.maturities
               /\ new.strikes = old.strikes
               /\ \A node \in GridNodes(old) :
                     /\ new.iv_grid[node[1]][node[2]]
                            = FAdd(old.iv_grid[node[1]][node[2]], bump)
                     /\ Iv(new, new.strikes[node[2]], new.maturities[node[1]])
                            = FAdd(Iv(old, old.strikes[node[2]], old.maturities[node[1]]), bump)

C7_Step == \A n \in 1..Len(surfaces) : surfaces'[n] = surfaces[n]

\* C7: a surface made by shock_parallel(bump) has, at every grid node, the
\* receiver's implied vol plus bump (not-a-number where the receiver's is), and
\* no call changes a surface that exists: rows, axes, grid, and so every iv.
C7_ShockAddsBumpAndKeepsReceiver == [](C7_State) /\ [][C7_Step]_vars

C7_Witness ==
    /\ Len(surfaces) >= 2
    /\ lineage[2].receiver = 1
    /\ \E node \in GridNodes(surfaces[1]) :
          /\ IsNum(surfaces[1].iv_grid[node[1]][node[2]])
          /\ IsNum(Iv(surfaces[2], surfaces[2].strikes[node[2]], surfaces[2].maturities[node[1]]))
    /\ \E n1, n2 \in 1..Len(surfaces[1].df) :
          n1 # n2 /\ surfaces[1].df[n1].maturity = surfaces[1].df[n2].maturity
                  /\ surfaces[1].df[n1].strike = surfaces[1].df[n2].strike
                  /\ surfaces[1].df[n1].iv # surfaces[1].df[n2].iv

(***************************************************************************)
(* price_from_surface, and the option-type branch of the pricer it calls.   *)
(* The spot, strike and maturity it passes on are positive.                 *)
(***************************************************************************)
MethodStrings == {"bsm", "BSM", "binomial", "mc", "heston"}
QueryValues == {1, 3}

\* np.isnan(sigma) or np.isinf(sigma)
InvalidVolOrInfinite(x) == ~IsNum(x)

\* line 66: sigma is None or np.isnan(sigma)
InvalidVol(x) == IsNaN(x)

DispInit ==
    /\ method \in MethodStrings
    /\ kw_type \in TypeStrings
    /\ qK \in QueryValues
    /\ qT \in QueryValues
    /\ sigma = NaN /\ disp_pc = "entry" /\ disp_outcome = "none" /\ invoked = <<>>

DispArgs == <<method, kw_type, qK, qT>>

\* line 64
PfsLookup ==
    /\ disp_pc = "entry"
    /\ sigma' = Iv(surfaces[1], qK, qT)
    /\ disp_pc' = "check"
    /\ UNCHANGED <<DispArgs, disp_outcome, invoked>>
    /\ UNCHANGED <<treeVars, ivVars, surfVars>>

\* lines 66-78
PfsDispatch ==
    /\ disp_pc = "check"
    /\ IF InvalidVol(sigma)
       THEN /\ disp_outcome' = "InvalidSurfaceQuery"
            /\ disp_pc' = "done"
            /\ UNCHANGED invoked
       ELSE IF Lower(method) \in {"bsm", "binomial", "mc"}
            THEN /\ invoked' = <<[pricer |-> Lower(method), sigma |-> sigma,
                                  option_type |-> kw_type]>>
                 /\ disp_pc' = "pricer"
                 /\ UNCHANGED disp_outcome
            ELSE /\ disp_outcome' = "InvalidInput"
                 /\ disp_pc' = "done"
                 /\ UNCHANGED invoked
    /\ UNCHANGED <<DispArgs, sigma>>
    /\ UNCHANGED <<treeVars, ivVars, surfVars>>

\* sigma <= 0 in floating point: false for not-a-number and for +infinity
NotPositive(x) == (IsNum(x) /\ x[2][1] <= 0) \/ x = NegInf

\* black_scholes_price lines 50-68
BlackScholesBranch(call) ==
    IF NotPositive(call.sigma) THEN "InvalidInput"
    ELSE IF Lower(call.option_type) = "call" THEN "call_price"
    ELSE IF Lower(call.option_type) = "put" THEN "put_price"
    ELSE "InvalidInput"

\* binomial_tree_price lines 35-39 and 48-49
BinomialBranch(call) ==
    IF Lower(call.option_type) = "call" THEN "call_price" ELSE "put_price"

\* monte_carlo_european lines 40-43
MonteCarloBranch(call) ==
    IF Lower(call.option_type) = "call" THEN "call_price" ELSE "put_price"

\* the pricer runs and price_from_surface returns what it returns
PricerRun ==
    /\ disp_pc = "pricer"
    /\ disp_outcome' =
          (CASE invoked[1].pricer = "bsm" -> BlackScholesBranch(invoked[1])
             [] invoked[1].pricer = "binomial" -> BinomialBranch(invoked[1])
             [] invoked[1].pricer = "mc" -> MonteCarloBranch(invoked[1]))
    /\ disp_pc' = "done"
    /\ UNCHANGED <<DispArgs, sigma, invoked>>
    /\ UNCHANGED <<treeVars, ivVars, surfVars>>

DispNext == PfsLookup \/ PfsDispatch \/ PricerRun

InitDispatch == SurfInit /\ DispInit /\ TreeIdle /\ IvIdle

SpecDispatch == InitDispatch /\ [][DispNext]_vars

\* C4: a pricer given an option type that is neither call nor put after case
\* folding fails with InvalidInput and returns no price.
C4_UnknownTypeRejected ==
    (disp_pc = "done" /\ invoked # <<>>
        /\ Lower(invoked[1].option_type) \notin {"call", "put"})
    => disp_outcome = "InvalidInput"

\* C5: when the surface's vol is not finite the call fails with the
\* invalid-surface-query error and no pricer is invoked.
C5_NonFiniteVolRejected ==
    /\ invoked # <<>> => IsNum(invoked[1].sigma)
    /\ (disp_pc = "done" /\ ~IsNum(sigma)) => disp_outcome = "InvalidSurfaceQuery"

====
